---- MODULE Spec2Model ----
(***************************************************************************)
(* Model of the goose-server plugin layer: the external-process lifecycle  *)
(* of LlmServerPlugin (crates/goose-server/src/plugins/llmserver.rs).      *)
(*                                                                         *)
(* Concurrent callers (tokio tasks on a multi-worker runtime) invoke       *)
(* start_service and stop_service on one shared plugin.  The tracking      *)
(* table `processes` is guarded by a tokio Mutex, modelled by `lock`.      *)
(* A step of the model is one stretch of a handler between two points at   *)
(* which another caller can observe or change the shared state.            *)
(***************************************************************************)
EXTENDS Naturals, Integers, Sequences, FiniteSets, TLC

\* ------------------------------------------------------------------ bounds

\* Number of concurrent callers.
NumTasks == 2

\* Total number of start_service / stop_service calls invoked in a run.
MaxCalls == 3

\* Number of external processes that may have exited on their own at a time.
MaxExits == 1

Tasks == 1..NumTasks

\* ------------------------------------------------------------- data types

\* enum PluginTaskType { Text, Tts }
PluginTaskType == {"Text", "Tts"}

\* PluginTaskType::as_directory_suffix
AsDirectorySuffix(task) == IF task = "Text" THEN "text" ELSE "tts"

\* Option<T>: None is the empty sequence, Some(x) the one-element sequence.
None == << >>

Some(x) == << x >>

IsSome(o) == o # << >>

Unwrap(o) == o[1]

\* The characters of the strings used as model_path values and as
\* directory names.
CharsOf(s) ==
    CASE s = ""  -> << >>
      [] s = " " -> << " " >>
      [] s = "m" -> << "m" >>
      [] s = "text" -> << "t", "e", "x", "t" >>
      [] s = "tts" -> << "t", "t", "s" >>

IsWhitespace(ch) == ch = " "

\* str::trim_start and str::trim_end on a sequence of characters.
RECURSIVE TrimStart(_)
TrimStart(cs) ==
    IF cs # << >> /\ IsWhitespace(Head(cs)) THEN TrimStart(Tail(cs)) ELSE cs

RECURSIVE TrimEnd(_)
TrimEnd(cs) ==
    IF cs # << >> /\ IsWhitespace(cs[Len(cs)])
    THEN TrimEnd(SubSeq(cs, 1, Len(cs) - 1))
    ELSE cs

\* A plausible slip: the string is tested without trimming.
TrimNothing(cs) == cs

\* str::trim
Trim(cs) == TrimEnd(TrimStart(cs))

\* request.model_path.trim().is_empty()
ModelPathIsBlank(model_path) == Trim(CharsOf(model_path)) = << >>

\* struct StartServiceRequest (its environment is not modelled).
Request(task, model_path, binary_path, args) ==
    [task_type |-> task, model_path |-> model_path,
     binary_path |-> binary_path, args |-> args]

\* The requests callers send, for each task type: one naming its binary,
\* one relying on the default binary and giving its own arguments, one with
\* a blank model_path and a binary, one with an empty model_path.
StartServiceRequest ==
    UNION {{Request(task, "m", Some("/req/llmserver"), None),
            Request(task, "m", None, Some(<< "--custom" >>)),
            Request(task, " ", Some("/req/llmserver"), None),
            Request(task, "", None, None)} : task \in PluginTaskType}

StopServiceRequest == [task_type : PluginTaskType]

\* The values of the plugin's default_binary (GOOSE_PLUGIN_LLM_BINARY).
DefaultBinaries == {None, Some("/env/llmserver")}

\* ------------------------------------------------------------------ state

VARIABLES
    default_binary,  \* LlmServerPlugin.default_binary
    processes,       \* LlmServerPlugin.processes: task type -> ManagedProcess
    lock,            \* Some(t) while task t holds the Mutex around processes
    children,        \* the external processes spawned so far, by handle
    pc,              \* where each caller is in its current call
    call,            \* each caller's current call: operation and locals
    result,          \* what each caller's last call returned
    ncalls,          \* calls invoked so far
    solo,            \* history: the call overlapped no other call of its task type
    conc,            \* history: a start that began on an empty slot, no stop since
    trail,           \* history: per task type, the last non-overlapping returns
    taken            \* history: the children stop_service took out of the table

\* The state of the service lifecycle (start_service, stop_service).
lifecycle_vars ==
    << default_binary, processes, lock, children, pc, call, result, ncalls,
       solo, conc, trail, taken >>

VARIABLES
    dl_pc,           \* where each download_model call is
    dl_call,         \* each download_model call: its request and locals
    dl_result,       \* what each caller's last download_model returned
    file,            \* each call's tokio File: path, cursor, write in flight
    files,           \* the file system: path -> bytes of the file
    dirs,            \* the file system: the directories that exist
    network          \* the requests sent to the remote host, in order

\* The state of the model downloads (download_model).
download_vars ==
    << dl_pc, dl_call, dl_result, file, files, dirs, network >>

VARIABLES
    url_request,     \* the request build_download_url is applied to
    url              \* the URL it returned

url_vars == << url_request, url >>

VARIABLES
    plugins,         \* PluginManager.plugins: plugin id -> plugin
    metadata_cache,  \* PluginManager.metadata_cache: plugin id -> metadata
    shared,          \* the manager is wrapped in SharedPluginManager
    registered,      \* history: the plugins registered, in order
    invoked,         \* history: the plugin methods the handlers invoked
    response,        \* the last response of a route handler
    nrequests        \* requests handled so far

\* The state of the registry and of the route handlers.
registry_vars ==
    << plugins, metadata_cache, shared, registered, invoked, response,
       nrequests >>

vars == << lifecycle_vars, download_vars, url_vars, registry_vars >>

\* ------------------------------------------------------------- the table

\* A plausible slip: the entry is looked up under the directory name of the
\* task type ("text", "tts"), which is never a key of the table.
ContainsKeyOfSuffix(table, key) == AsDirectorySuffix(key) \in DOMAIN table

\* HashMap::contains_key
ContainsKey(table, key) == key \in DOMAIN table

\* A plausible slip: the check takes the entry out (remove(..).is_some()).
AfterContainsKeyRemoves(table, key) == [k \in DOMAIN table \ {key} |-> table[k]]

\* contains_key borrows the table immutably: the check leaves it as it is.
AfterContainsKey(table, key) == table

\* HashMap::insert: the entry for key is set, replacing any previous one.
Insert(table, key, value) ==
    [k \in DOMAIN table \cup {key} |-> IF k = key THEN value ELSE table[k]]

\* A plausible slip: the entry is looked up and left in the table.
RemoveKeepsEntry(table, key) == table

\* A plausible slip: the whole table is cleared.
RemoveClearsTable(table, key) == << >>

\* HashMap::remove: the table without the entry for key.
Remove(table, key) == [k \in DOMAIN table \ {key} |-> table[k]]

\* The value HashMap::remove returns: the entry that was there, if any.
Removed(table, key) == IF key \in DOMAIN table THEN Some(table[key]) ELSE None

EmptyTable == << >>

\* ManagedProcess::new(child) with no command and arguments (line 23).
ManagedProcessBare(child) == [child |-> child, command |-> "", args |-> << >>]

\* ManagedProcess::new(child, command, args)
ManagedProcess(child, command, args) ==
    [child |-> child, command |-> command, args |-> args]

\* ----------------------------------------------------- request handling

\* A plausible slip: the configured default wins over the request's value.
ResolveBinaryPathDefaultFirst(request, default) ==
    IF IsSome(default) THEN default
    ELSE IF IsSome(request.binary_path) THEN request.binary_path
    ELSE None

\* LlmServerPlugin::resolve_binary_path: Some(path), or None for the
\* InvalidRequest error.
ResolveBinaryPath(request, default) ==
    IF IsSome(request.binary_path) THEN request.binary_path
    ELSE IF IsSome(default) THEN default
    ELSE None

\* LlmServerPlugin::default_args
DefaultArgs(task, model_path) ==
    << "serve", "--model", model_path, "--task", AsDirectorySuffix(task) >>

\* request.args.clone().unwrap_or_else(|| default_args(..))
ResolveArgs(request) ==
    IF IsSome(request.args) THEN Unwrap(request.args)
    ELSE DefaultArgs(request.task_type, request.model_path)

\* PluginError and the two responses, in one record shape.
Outcome(kind, msg) ==
    [kind |-> kind, msg |-> msg, pid |-> 0, command |-> "", args |-> << >>,
     terminated |-> FALSE]

NoResult == Outcome("none", "")

InvalidRequest(msg) == Outcome("InvalidRequest", msg)

ProcessAlreadyRunning == Outcome("ProcessAlreadyRunning", "")

ProcessNotRunning == Outcome("ProcessNotRunning", "")

\* A plausible slip: without map_err the io::Error of a spawn, a kill or a
\* wait converts into PluginError::Io.
ProcessStartAsIo(msg) == Outcome("Io", msg)

ProcessStart(msg) == Outcome("ProcessStart", msg)

StartServiceResponse(pid, command, args) ==
    [kind |-> "Ok", msg |-> "", pid |-> pid, command |-> command,
     args |-> args, terminated |-> FALSE]

StopServiceResponse ==
    [kind |-> "Ok", msg |-> "", pid |-> 0, command |-> "", args |-> << >>,
     terminated |-> TRUE]

\* The error start_service returns for a request it rejects, or None.
StartValidation(request, default) ==
    IF ModelPathIsBlank(request.model_path)
    THEN Some(InvalidRequest("model_path is required"))
    ELSE IF ~IsSome(ResolveBinaryPath(request, default))
    THEN Some(InvalidRequest("binary_path not provided"))
    ELSE None

\* ------------------------------------------------------ child processes

\* Child::id(): the identifier, unless the child was polled to completion.
ChildId(child) == IF child.state = "reaped" THEN None ELSE Some(child.pid)

\* The handle the next spawned process gets; its pid is the handle's number.
NextChild == Len(children) + 1

Spawned(task) == [task_type |-> task, pid |-> NextChild, state |-> "running"]

SetState(k, st) == [children EXCEPT ![k].state = st]

\* ------------------------------------------------------------- callers

\* A caller's call: the operation, the request's fields and the child the
\* call spawned (start) or took out of the table (stop); as history, the
\* entries the call passed to processes.insert, in order.
Call(op, task, model_path, binary_path, args) ==
    [op |-> op, task_type |-> task, model_path |-> model_path,
     binary_path |-> binary_path, args |-> args, child |-> None,
     inserted |-> << >>]

Idle == Call("none", "Text", "", None, None)

\* The call record once the call has returned: the request is dropped.
Returned(c) == [c EXCEPT !.model_path = "", !.binary_path = None, !.args = None]

InFlight(t) == pc[t] \notin {"idle", "done"}

\* The other callers with a call of the same task type in progress.
Overlapping(t, task) ==
    {u \in Tasks \ {t} : InFlight(u) /\ call[u].task_type = task}

StartsOf(task) ==
    {u \in Tasks : call[u].op = "start" /\ call[u].task_type = task}

Last2(s) == IF Len(s) > 2 THEN SubSeq(s, Len(s) - 1, Len(s)) ELSE s

Summary(op, kind, child) == [op |-> op, kind |-> kind, child |-> child]

\* History at the invocation of a call by t: overlapping calls of the task
\* type stop being solo; a stop ends the cohort of concurrent starts of its
\* task type, and so does the reuse of a caller that belonged to one.
ConcAtBegin(t, op, task) ==
    [u \in Tasks |->
        IF u = t THEN op = "start" /\ task \notin DOMAIN processes
        ELSE IF op = "stop" /\ u \in StartsOf(task) THEN FALSE
        ELSE IF conc[t] /\ u \in StartsOf(call[t].task_type) THEN FALSE
        ELSE conc[u]]

SoloAtBegin(t, task) ==
    [u \in Tasks |->
        IF u = t THEN Overlapping(t, task) = {}
        ELSE IF u \in Overlapping(t, task) THEN FALSE
        ELSE solo[u]]

\* History after a step of t's call: a call that has returned is no longer
\* recorded as running alone.
SoloAfter(t) == IF pc'[t] = "done" THEN [solo EXCEPT ![t] = FALSE] ELSE solo

\* History at the return of t's call.
TrailAtReturn(t, kind, child) ==
    LET task == call[t].task_type
    IN  [trail EXCEPT ![task] =
            IF solo[t]
            THEN Last2(Append(trail[task], Summary(call[t].op, kind, child)))
            ELSE << >>]

\* ------------------------------------------------------------------ init

LifecycleInit ==
    /\ default_binary \in DefaultBinaries
    /\ processes = EmptyTable
    /\ lock = None
    /\ children = << >>
    /\ pc = [t \in Tasks |-> "idle"]
    /\ call = [t \in Tasks |-> Idle]
    /\ result = [t \in Tasks |-> NoResult]
    /\ ncalls = 0
    /\ solo = [t \in Tasks |-> FALSE]
    /\ conc = [t \in Tasks |-> FALSE]
    /\ trail = [c \in PluginTaskType |-> << >>]
    /\ taken = {}

\* A step of the service lifecycle leaves the rest of the server as it is.
LifecycleOnly == UNCHANGED << download_vars, url_vars, registry_vars >>

\* ---------------------------------------------------------- start_service

\* start_service, lines 208-229: the request is validated, the binary and
\* the arguments are resolved and the command is built.  Nothing shared is
\* read or written; a rejected request returns at once.
StartBegin(t, request) ==
    /\ pc[t] \in {"idle", "done"}
    /\ ncalls < MaxCalls
    /\ ncalls' = ncalls + 1
    /\ call' = [call EXCEPT ![t] =
           Call("start", request.task_type, request.model_path,
                request.binary_path, request.args)]
    /\ LET bad == StartValidation(request, default_binary)
       IN  IF IsSome(bad)
           THEN /\ pc' = [pc EXCEPT ![t] = "done"]
                /\ result' = [result EXCEPT ![t] = Unwrap(bad)]
                /\ conc' = [ConcAtBegin(t, "start", request.task_type)
                               EXCEPT ![t] = FALSE]
                /\ solo' = [solo EXCEPT ![t] = FALSE]
           ELSE /\ pc' = [pc EXCEPT ![t] = "check"]
                /\ result' = [result EXCEPT ![t] = NoResult]
                /\ conc' = ConcAtBegin(t, "start", request.task_type)
                /\ solo' = SoloAtBegin(t, request.task_type)
    /\ UNCHANGED << default_binary, processes, lock, children, trail, taken >>
    /\ LifecycleOnly

\* A plausible slip: the guard of the check is kept for the insert (no block
\* around lines 232-235), and line 246 locks again.
StartCheckKeepsGuard(t) ==
    /\ pc[t] = "check"
    /\ lock = None
    /\ IF ContainsKey(processes, call[t].task_type)
       THEN /\ pc' = [pc EXCEPT ![t] = "done"]
            /\ result' = [result EXCEPT ![t] = ProcessAlreadyRunning]
            /\ call' = [call EXCEPT ![t] = Returned(call[t])]
            /\ trail' = TrailAtReturn(t, "ProcessAlreadyRunning", None)
            /\ UNCHANGED lock
       ELSE /\ pc' = [pc EXCEPT ![t] = "spawn"]
            /\ lock' = Some(t)
            /\ UNCHANGED << result, trail, call >>
    /\ processes' = AfterContainsKey(processes, call[t].task_type)
    /\ solo' = SoloAfter(t)
    /\ UNCHANGED << default_binary, children, ncalls, conc, taken >>
    /\ LifecycleOnly

\* start_service, lines 231-236: the lock is taken, the table is asked for
\* the task type, and the lock is released at the end of the block.
StartCheck(t) ==
    /\ pc[t] = "check"
    /\ lock = None
    /\ IF ContainsKey(processes, call[t].task_type)
       THEN /\ pc' = [pc EXCEPT ![t] = "done"]
            /\ result' = [result EXCEPT ![t] = ProcessAlreadyRunning]
            /\ call' = [call EXCEPT ![t] = Returned(call[t])]
            /\ trail' = TrailAtReturn(t, "ProcessAlreadyRunning", None)
       ELSE /\ pc' = [pc EXCEPT ![t] = "spawn"]
            /\ UNCHANGED << result, trail, call >>
    /\ processes' = AfterContainsKey(processes, call[t].task_type)
    /\ solo' = SoloAfter(t)
    /\ UNCHANGED << default_binary, lock, children, ncalls, conc, taken >>
    /\ LifecycleOnly

\* start_service, lines 238-244: the process is spawned and its identifier
\* read, with the lock not held.  A failed spawn returns ProcessStart; so
\* does a child without identifier, which is dropped while its process
\* goes on.
StartSpawn(t) ==
    /\ pc[t] = "spawn"
    /\ \E spawned \in BOOLEAN :
          IF ~spawned
          THEN /\ pc' = [pc EXCEPT ![t] = "done"]
               /\ result' = [result EXCEPT ![t] = ProcessStart("spawn")]
               /\ trail' = TrailAtReturn(t, "ProcessStart", None)
               /\ call' = [call EXCEPT ![t] = Returned(call[t])]
               /\ UNCHANGED children
          ELSE /\ children' = Append(children, Spawned(call[t].task_type))
               /\ IF ~IsSome(ChildId(Spawned(call[t].task_type)))
                  THEN /\ pc' = [pc EXCEPT ![t] = "done"]
                       /\ call' = [call EXCEPT ![t] =
                              [Returned(call[t]) EXCEPT !.child = Some(NextChild)]]
                       /\ result' = [result EXCEPT ![t] =
                              ProcessStart("failed to obtain process identifier")]
                       /\ trail' = TrailAtReturn(t, "ProcessStart", Some(NextChild))
                  ELSE /\ pc' = [pc EXCEPT ![t] = "insert"]
                       /\ call' = [call EXCEPT ![t].child = Some(NextChild)]
                       /\ UNCHANGED << result, trail >>
    /\ solo' = SoloAfter(t)
    /\ UNCHANGED << default_binary, processes, lock, ncalls, conc, taken >>
    /\ LifecycleOnly

\* The entries start_service passes to processes.insert: the one of line
\* 247 and the one of lines 248-255.
ManagedEntries(child, command, args) ==
    << ManagedProcessBare(child), ManagedProcess(child, command, args) >>

RECURSIVE InsertAll(_, _, _)
InsertAll(table, key, entries) ==
    IF entries = << >> THEN table
    ELSE InsertAll(Insert(table, key, Head(entries)), key, Tail(entries))

\* The table after lines 247-255: the entry is inserted twice under the same
\* key, the second insert replacing the first.
InsertManaged(table, task, child, command, args) ==
    InsertAll(table, task, ManagedEntries(child, command, args))

\* start_service, lines 246-261: the lock is taken again, the entry is
\* inserted and the response returned; the guard is dropped on return.
StartInsert(t) ==
    /\ pc[t] = "insert"
    /\ lock = None
    /\ LET k == Unwrap(call[t].child)
           request == call[t]
           binary_path == Unwrap(ResolveBinaryPath(request, default_binary))
           args == ResolveArgs(request)
       IN  /\ processes' = InsertManaged(processes, request.task_type, k,
                                         binary_path, args)
           /\ result' = [result EXCEPT ![t] =
                  StartServiceResponse(Unwrap(ChildId(children[k])),
                                       binary_path, args)]
           /\ trail' = TrailAtReturn(t, "Ok", Some(k))
           /\ call' = [call EXCEPT ![t] =
                  [Returned(call[t]) EXCEPT
                      !.inserted = ManagedEntries(k, binary_path, args)]]
    /\ pc' = [pc EXCEPT ![t] = "done"]
    /\ solo' = SoloAfter(t)
    /\ UNCHANGED << default_binary, lock, children, ncalls, conc, taken >>
    /\ LifecycleOnly

\* ----------------------------------------------------------- stop_service

\* stop_service is invoked; its first statement waits for the lock.
StopBegin(t, request) ==
    /\ pc[t] \in {"idle", "done"}
    /\ ncalls < MaxCalls
    /\ ncalls' = ncalls + 1
    /\ pc' = [pc EXCEPT ![t] = "remove"]
    /\ call' = [call EXCEPT ![t] =
           Call("stop", request.task_type, "", None, None)]
    /\ result' = [result EXCEPT ![t] = NoResult]
    /\ conc' = ConcAtBegin(t, "stop", request.task_type)
    /\ solo' = SoloAtBegin(t, request.task_type)
    /\ UNCHANGED << default_binary, processes, lock, children, trail, taken >>
    /\ LifecycleOnly

\* stop_service, lines 268-272: the lock is taken and the entry removed.
\* With no entry the call returns ProcessNotRunning and drops the guard;
\* with one, it goes on holding the guard, which lives to the end of the
\* function.
StopRemove(t) ==
    /\ pc[t] = "remove"
    /\ lock = None
    /\ LET task == call[t].task_type
           managed == Removed(processes, task)
       IN  IF ~IsSome(managed)
           THEN /\ processes' = Remove(processes, task)
                /\ pc' = [pc EXCEPT ![t] = "done"]
                /\ result' = [result EXCEPT ![t] = ProcessNotRunning]
                /\ trail' = TrailAtReturn(t, "ProcessNotRunning", None)
                /\ UNCHANGED << lock, call, taken >>
           ELSE /\ processes' = Remove(processes, task)
                /\ call' = [call EXCEPT ![t].child = Some(Unwrap(managed).child)]
                /\ taken' = taken \cup {Unwrap(managed).child}
                /\ lock' = Some(t)
                /\ pc' = [pc EXCEPT ![t] = "kill"]
                /\ UNCHANGED << result, trail >>
    /\ solo' = SoloAfter(t)
    /\ UNCHANGED << default_binary, children, ncalls, conc >>
    /\ LifecycleOnly

\* stop_service, lines 274-278: with an identifier at hand the child is
\* killed; a failed kill returns ProcessStart and drops the guard.  Without
\* an identifier the call returns its response at once (lines 285-288).
StopKill(t) ==
    /\ pc[t] = "kill"
    /\ lock = Some(t)
    /\ LET k == Unwrap(call[t].child)
       IN  IF IsSome(ChildId(children[k]))
           THEN \E killed \in BOOLEAN :
                   IF killed
                   THEN /\ children' = SetState(k, "killed")
                        /\ pc' = [pc EXCEPT ![t] = "wait"]
                        /\ UNCHANGED << lock, result, trail >>
                   ELSE /\ lock' = None
                        /\ pc' = [pc EXCEPT ![t] = "done"]
                        /\ result' = [result EXCEPT ![t] = ProcessStart("kill")]
                        /\ trail' = TrailAtReturn(t, "ProcessStart", call[t].child)
                        /\ UNCHANGED children
           ELSE /\ lock' = None
                /\ pc' = [pc EXCEPT ![t] = "done"]
                /\ result' = [result EXCEPT ![t] = StopServiceResponse]
                /\ trail' = TrailAtReturn(t, "Ok", call[t].child)
                /\ UNCHANGED children
    /\ solo' = SoloAfter(t)
    /\ UNCHANGED << default_binary, processes, call, ncalls, conc, taken >>
    /\ LifecycleOnly

\* stop_service, lines 279-288: the child is waited for; a failed wait
\* returns ProcessStart, a successful one the response.  Either way the
\* guard is dropped on return.
StopWait(t) ==
    /\ pc[t] = "wait"
    /\ lock = Some(t)
    /\ LET k == Unwrap(call[t].child)
       IN  \E waited \in BOOLEAN :
              IF waited
              THEN /\ children' = SetState(k, "reaped")
                   /\ result' = [result EXCEPT ![t] = StopServiceResponse]
                   /\ trail' = TrailAtReturn(t, "Ok", call[t].child)
              ELSE /\ result' = [result EXCEPT ![t] = ProcessStart("wait")]
                   /\ trail' = TrailAtReturn(t, "ProcessStart", call[t].child)
                   /\ UNCHANGED children
    /\ lock' = None
    /\ pc' = [pc EXCEPT ![t] = "done"]
    /\ solo' = SoloAfter(t)
    /\ UNCHANGED << default_binary, processes, call, ncalls, conc, taken >>
    /\ LifecycleOnly

\* ------------------------------------------------------------ environment

\* An external process exits on its own.  Nothing in the plugin watches it.
ProcessExit(k) ==
    /\ children[k].state = "running"
    /\ Cardinality({j \in DOMAIN children : children[j].state = "exited"}) < MaxExits
    /\ children' = SetState(k, "exited")
    /\ UNCHANGED << default_binary, processes, lock, pc, call, result, ncalls,
                    solo, conc, trail, taken >>
    /\ LifecycleOnly

\* ============================================================ download_model

\* Number of download_model calls; each caller makes one.
NumDownloads == 2

\* Largest number of chunks a response body arrives in.
MaxChunks == 2

Downloaders == 1..NumDownloads

\* --------------------------------------------------------------- requests

\* struct DownloadModelRequest.  model_id, filename and revision are strings,
\* written as sequences of characters; destination_dir is a path.
DownloadModelRequest(model_id, filename, revision, destination_dir, auth_token, task) ==
    [model_id |-> model_id, filename |-> filename, revision |-> revision,
     destination_dir |-> destination_dir, auth_token |-> auth_token,
     task_type |-> task]

\* fn default_revision
DefaultRevision == << "m", "a", "i", "n" >>

\* The download requests callers send: into the default directory of each
\* task type, into a directory of the request's own with a token, and three
\* with a blank model_id or filename.
DownloadRequests ==
    LET id == << "o", "/", "n" >>
        f  == << "f" >>
        dest == Some(<< << "d" >> >>)
    IN  {DownloadModelRequest(id, f, DefaultRevision, None, None, "Text"),
         DownloadModelRequest(id, f, DefaultRevision, None, None, "Tts"),
         DownloadModelRequest(id, f, DefaultRevision, dest, Some("token"), "Text"),
         DownloadModelRequest(<< " " >>, f, DefaultRevision, None, None, "Text"),
         DownloadModelRequest(id, << >>, DefaultRevision, dest, None, "Tts"),
         DownloadModelRequest(id, << " ", " " >>, DefaultRevision, None, None, "Tts")}

\* PluginError and DownloadModelResponse, in one record shape.
DownloadError(kind, msg) ==
    [kind |-> kind, msg |-> msg, saved_path |-> << >>, bytes_written |-> 0]

NoDownloadResult == DownloadError("none", "")

DownloadModelResponse(saved_path, bytes_written) ==
    [kind |-> "Ok", msg |-> "", saved_path |-> saved_path,
     bytes_written |-> bytes_written]

\* A plausible slip: only the model_id is validated.
DownloadValidationModelIdOnly(request) ==
    IF Trim(request.model_id) = << >>
    THEN Some(DownloadError("InvalidRequest", "model_id is required"))
    ELSE None

\* download_model, lines 174-184: the error for a request it rejects, or None.
DownloadValidation(request) ==
    IF Trim(request.model_id) = << >>
    THEN Some(DownloadError("InvalidRequest", "model_id is required"))
    ELSE IF Trim(request.filename) = << >>
    THEN Some(DownloadError("InvalidRequest", "filename is required"))
    ELSE None

\* -------------------------------------------------------------------- URLs

\* str::split(sep): the pieces between the separators, empty ones included.
RECURSIVE Split(_, _)
Split(cs, sep) ==
    IF \A i \in 1..Len(cs) : cs[i] # sep
    THEN << cs >>
    ELSE LET i == CHOOSE i \in 1..Len(cs) :
                      cs[i] = sep /\ \A j \in 1..(i - 1) : cs[j] # sep
         IN  << SubSeq(cs, 1, i - 1) >> \o Split(SubSeq(cs, i + 1, Len(cs)), sep)

\* The percent-encoding of a character of a path segment: besides the
\* characters of the path encode set, "%" and "/" are encoded.
EncodeChar(ch) ==
    CASE ch = " " -> << "%", "2", "0" >>
      [] ch = "/" -> << "%", "2", "F" >>
      [] ch = "%" -> << "%", "2", "5" >>
      [] OTHER    -> << ch >>

RECURSIVE PercentEncode(_)
PercentEncode(cs) ==
    IF cs = << >> THEN << >>
    ELSE EncodeChar(Head(cs)) \o PercentEncode(Tail(cs))

\* Url::parse("https://huggingface.co/"): the path is "/".
BaseUrl == [host |-> "huggingface.co", path |-> << "/" >>, query |-> None]

\* PathSegmentsMut::push: the segment is appended percent-encoded, after a
\* "/" unless the path is just "/"; a segment "." or ".." is ignored.
Push(u, segment) ==
    IF segment \in {<< "." >>, << ".", "." >>}
    THEN u
    ELSE [u EXCEPT !.path =
             (IF Len(u.path) > 1 THEN Append(u.path, "/") ELSE u.path)
             \o PercentEncode(segment)]

RECURSIVE PushAll(_, _)
PushAll(u, segments) ==
    IF segments = << >> THEN u
    ELSE PushAll(Push(u, Head(segments)), Tail(segments))

IsEmptySegment(segment) == segment = << >>

\* The segments of model_id that the loop of lines 148-153 pushes.
ModelIdSegments(model_id) ==
    SelectSeq(Split(model_id, "/"), LAMBDA segment : ~IsEmptySegment(segment))

\* LlmServerPlugin::build_download_url
BuildDownloadUrl(request) ==
    LET pushed ==
            Push(Push(Push(PushAll(BaseUrl, ModelIdSegments(request.model_id)),
                           << "r", "e", "s", "o", "l", "v", "e" >>),
                      request.revision),
                 request.filename)
    IN  [pushed EXCEPT !.query = Some("download=1")]

\* ------------------------------------------------------------------- paths

\* LlmServerPlugin.base_dir (GOOSE_PLUGIN_LLM_BASE_DIR): a path is the
\* sequence of its components.
BaseDir == << << "b" >> >>

\* Path::join: a relative name is appended; an absolute one replaces the
\* path.
Join(dir, name) ==
    IF name # << >> /\ name[1] = "/" THEN << name >> ELSE Append(dir, name)

\* LlmServerPlugin::resolve_destination_dir
ResolveDestinationDir(request) ==
    IF IsSome(request.destination_dir)
    THEN Unwrap(request.destination_dir)
    ELSE Join(BaseDir, CharsOf(AsDirectorySuffix(request.task_type)))

\* download_model, lines 194-195
TargetPath(request) == Join(ResolveDestinationDir(request), request.filename)

\* Path::parent
Parent(path) ==
    IF path = << >> THEN None ELSE Some(SubSeq(path, 1, Len(path) - 1))

\* fs::create_dir_all: the directory and every missing ancestor exist.
CreateDirAll(existing, dir) ==
    existing \cup {SubSeq(dir, 1, n) : n \in 1..Len(dir)}

\* ------------------------------------------------------------------- files

\* The chunks a response body is made of, and the bodies.
Chunks == {<< 1 >>, << 2, 3 >>}

Bodies == UNION {[1..n -> Chunks] : n \in 0..MaxChunks}

\* A write of the bytes at an offset of a file: the bytes there are
\* replaced, the file grows as needed, a gap is filled with zero bytes.
WriteAt(bytes, offset, chunk) ==
    LET end == offset + Len(chunk)
        size == IF Len(bytes) > end THEN Len(bytes) ELSE end
    IN  [i \in 1..size |->
            IF i > offset /\ i <= end THEN chunk[i - offset]
            ELSE IF i <= Len(bytes) THEN bytes[i]
            ELSE 0]

\* A plausible slip: the file is opened for writing without truncation.
CreateKeepsContent(fs, path) ==
    [p \in DOMAIN fs \cup {path} |-> IF p \in DOMAIN fs THEN fs[p] ELSE << >>]

\* fs::File::create: the file exists and is empty.
Create(fs, path) ==
    [p \in DOMAIN fs \cup {path} |-> IF p = path THEN << >> ELSE fs[p]]

\* A tokio File: the path it was created at, the position of its cursor,
\* the write handed to the blocking pool and not yet done, and whether such
\* a write failed without the error having been reported.
File(path) == [path |-> path, cursor |-> 0, pending |-> None, failed |-> FALSE]

NoFile == File(<< >>)

\* A download_model call: the request and the locals of download_model and
\* store_model.  received and flushed are history: the chunks taken from
\* the response, and whether every write was done when the call returned.
DownloadCall(request) ==
    [request |-> request, url |-> BaseUrl, target_path |-> << >>,
     response |-> << >>, received |-> << >>, bytes_written |-> 0,
     flushed |-> FALSE]

NoDownloadCall ==
    DownloadCall(DownloadModelRequest(<< >>, << >>, << >>, None, None, "Text"))

DownloadInit ==
    /\ dl_pc = [d \in Downloaders |-> "idle"]
    /\ dl_call = [d \in Downloaders |-> NoDownloadCall]
    /\ dl_result = [d \in Downloaders |-> NoDownloadResult]
    /\ file = [d \in Downloaders |-> NoFile]
    /\ files = << >>
    /\ dirs = {BaseDir, Join(BaseDir, CharsOf("text")), Join(BaseDir, CharsOf("tts"))}
    /\ network = << >>

\* A step of a download leaves the rest of the server as it is.
DownloadOnly == UNCHANGED << lifecycle_vars, url_vars, registry_vars >>

\* The call of d returns the result.
DownloadReturn(d, res) ==
    /\ dl_pc' = [dl_pc EXCEPT ![d] = "done"]
    /\ dl_result' = [dl_result EXCEPT ![d] = res]

\* download_model, lines 174-186: the request is validated and the URL
\* built.  Nothing is sent or written; a rejected request returns at once.
DownloadBegin(d, request) ==
    /\ dl_pc[d] = "idle"
    /\ LET bad == DownloadValidation(request)
       IN  IF IsSome(bad)
           THEN /\ DownloadReturn(d, Unwrap(bad))
                /\ dl_call' = [dl_call EXCEPT ![d] = DownloadCall(request)]
           ELSE /\ dl_pc' = [dl_pc EXCEPT ![d] = "send"]
                /\ dl_call' = [dl_call EXCEPT ![d] =
                       [DownloadCall(request) EXCEPT
                           !.url = BuildDownloadUrl(request)]]
                /\ UNCHANGED dl_result
    /\ UNCHANGED << file, files, dirs, network >>
    /\ DownloadOnly

\* download_model, lines 187-195: the GET is sent, with the bearer token if
\* the request has one.  A failed request and a status other than 2xx
\* return Network; otherwise the response is at hand, in whatever chunks
\* the body arrives, and the target path is resolved.
DownloadSend(d) ==
    /\ dl_pc[d] = "send"
    /\ network' = Append(network, [url |-> dl_call[d].url,
                                   bearer |-> dl_call[d].request.auth_token])
    /\ \E answer \in {"failed", "status", "ok"} :
          IF answer # "ok"
          THEN /\ DownloadReturn(d, DownloadError("Network", answer))
               /\ UNCHANGED dl_call
          ELSE /\ \E body \in Bodies :
                     dl_call' = [dl_call EXCEPT
                         ![d].response = body,
                         ![d].target_path = TargetPath(dl_call[d].request)]
               /\ dl_pc' = [dl_pc EXCEPT ![d] = "mkdir"]
               /\ UNCHANGED dl_result
    /\ UNCHANGED << file, files, dirs >>
    /\ DownloadOnly

\* store_model, lines 123-125: the parent directory is created, with its
\* missing ancestors; a failure returns Io.
DownloadMkdir(d) ==
    /\ dl_pc[d] = "mkdir"
    /\ LET parent == Parent(dl_call[d].target_path)
       IN  \E made \in BOOLEAN :
              IF IsSome(parent) /\ ~made
              THEN /\ DownloadReturn(d, DownloadError("Io", "create_dir_all"))
                   /\ UNCHANGED dirs
              ELSE /\ dirs' = IF IsSome(parent)
                              THEN CreateDirAll(dirs, Unwrap(parent))
                              ELSE dirs
                   /\ dl_pc' = [dl_pc EXCEPT ![d] = "create"]
                   /\ UNCHANGED dl_result
    /\ UNCHANGED << dl_call, file, files, network >>
    /\ DownloadOnly

\* store_model, lines 127-128: the file is created, or truncated if it is
\* there; a failure returns Io.
DownloadCreate(d) ==
    /\ dl_pc[d] = "create"
    /\ LET path == dl_call[d].target_path
       IN  \E created \in BOOLEAN :
              IF ~created
              THEN /\ DownloadReturn(d, DownloadError("Io", "create"))
                   /\ UNCHANGED << file, files >>
              ELSE /\ files' = Create(files, path)
                   /\ file' = [file EXCEPT ![d] = File(path)]
                   /\ dl_pc' = [dl_pc EXCEPT ![d] = "chunk"]
                   /\ UNCHANGED dl_result
    /\ UNCHANGED << dl_call, dirs, network >>
    /\ DownloadOnly

\* Whether every write of d's file is done and none of them failed.
Flushed(d) == file[d].pending = None /\ ~file[d].failed

\* store_model, lines 129-134: one turn of the loop.  response.chunk() fails
\* (Network), reports the end of the body (the byte count is returned), or
\* gives a chunk, which is counted and handed to write_all.  write_all on a
\* tokio File first waits for the write in flight, returns its error if it
\* failed (Io), and then hands the chunk to the blocking pool and returns
\* Ok without waiting for that write.
DownloadChunk(d) ==
    /\ dl_pc[d] = "chunk"
    /\ LET c == dl_call[d]
       IN  \E arrived \in BOOLEAN :
              IF ~arrived
              THEN /\ DownloadReturn(d, DownloadError("Network", "chunk"))
                   /\ dl_call' = [dl_call EXCEPT ![d].flushed = Flushed(d)]
                   /\ UNCHANGED file
              ELSE IF c.response = << >>
              THEN /\ DownloadReturn(d,
                          DownloadModelResponse(c.target_path, c.bytes_written))
                   /\ dl_call' = [dl_call EXCEPT ![d].flushed = Flushed(d)]
                   /\ UNCHANGED file
              ELSE /\ file[d].pending = None
                   /\ IF file[d].failed
                      THEN /\ DownloadReturn(d, DownloadError("Io", "write"))
                           /\ file' = [file EXCEPT ![d].failed = FALSE]
                           /\ dl_call' = [dl_call EXCEPT ![d].flushed = TRUE]
                      ELSE /\ file' = [file EXCEPT
                                  ![d].pending = Some(Head(c.response))]
                           /\ dl_call' = [dl_call EXCEPT
                                  ![d].response = Tail(c.response),
                                  ![d].received = Append(c.received, Head(c.response)),
                                  ![d].bytes_written =
                                      c.bytes_written + Len(Head(c.response))]
                           /\ UNCHANGED << dl_pc, dl_result >>
    /\ UNCHANGED << files, dirs, network >>
    /\ DownloadOnly

\* The blocking pool performs the write in flight of d's file, at the
\* file's cursor.  A failure is kept for the next write_all to report.
WriteBack(d) ==
    /\ IsSome(file[d].pending)
    /\ LET chunk == Unwrap(file[d].pending)
           path == file[d].path
       IN  \E written \in BOOLEAN :
              IF written
              THEN /\ files' = [files EXCEPT
                          ![path] = WriteAt(@, file[d].cursor, chunk)]
                   /\ file' = [file EXCEPT
                          ![d].pending = None,
                          ![d].cursor = @ + Len(chunk)]
              ELSE /\ file' = [file EXCEPT ![d].pending = None,
                                           ![d].failed = TRUE]
                   /\ UNCHANGED files
    /\ UNCHANGED << dl_pc, dl_call, dl_result, dirs, network >>
    /\ DownloadOnly

DownloadNext ==
    \/ \E d \in Downloaders, request \in DownloadRequests : DownloadBegin(d, request)
    \/ \E d \in Downloaders : DownloadSend(d)
    \/ \E d \in Downloaders : DownloadMkdir(d)
    \/ \E d \in Downloaders : DownloadCreate(d)
    \/ \E d \in Downloaders : DownloadChunk(d)
    \/ \E d \in Downloaders : WriteBack(d)

\* ------------------------------------------------------------------ next

\* The steps of a download_model call that no other call runs beside.
DownloadAloneNext ==
    \/ \E request \in DownloadRequests : DownloadBegin(1, request)
    \/ DownloadSend(1)
    \/ DownloadMkdir(1)
    \/ DownloadCreate(1)
    \/ DownloadChunk(1)
    \/ WriteBack(1)

\* ------------------------------------------------------ build_download_url

\* Longest model_id build_download_url is applied to.
MaxLen == 3

\* The characters of the strings: a letter, the separator, the dot of the
\* dot segments, and two characters that are percent-encoded.
Alphabet == {"a", "/", ".", " ", "%"}

Strings(n) == UNION {[1..k -> Alphabet] : k \in 0..n}

\* The requests build_download_url is applied to: those download_model has
\* validated.
UrlRequests ==
    {request \in
        {DownloadModelRequest(model_id, filename, revision, None, None, "Text") :
            model_id \in Strings(MaxLen),
            filename \in {<< "f" >>, << "a", "/", "a" >>, << ".", "." >>},
            revision \in {DefaultRevision, << >>, << "." >>, << "a", " " >>}} :
        DownloadValidation(request) = None}

UrlIdle == url_request = None /\ url = None

UrlInit == url_request \in {Some(request) : request \in UrlRequests} /\ url = None

\* build_download_url is applied to the request.
BuildUrl ==
    /\ url = None
    /\ IsSome(url_request)
    /\ url' = Some(BuildDownloadUrl(Unwrap(url_request)))
    /\ UNCHANGED << url_request, lifecycle_vars, download_vars, registry_vars >>


\* ================================================= registry and handlers

\* Number of register calls before the manager is shared.
MaxRegisters == 3

\* Number of requests the route handlers serve.
MaxRequests == 2

\* enum PluginCapability
PluginCapability == {"ModelDownload", "ServiceStart", "ServiceStop"}

\* struct PluginMetadata (its description is not modelled).
PluginMetadata(id, name, capabilities) ==
    [id |-> id, name |-> name, capabilities |-> capabilities]

\* The operations of trait ServerPlugin besides metadata.
Operations == {"download_model", "start_service", "stop_service"}

\* A plugin: what metadata() returns and the operations its type overrides;
\* the others are the default methods of the trait.
ServerPlugin(instance, metadata, overrides) ==
    [instance |-> instance, metadata |-> metadata, overrides |-> overrides]

\* LlmServerPlugin::bootstrap: the metadata of lines 62-71; the impl of
\* lines 165-290 overrides the three operations.
LlmServerPlugin ==
    ServerPlugin("llmserver",
                 PluginMetadata("llmserver-rs", "llmserver-rs", PluginCapability),
                 Operations)

\* The plugins registered: the llmserver plugin, a plugin of another type
\* that declares the same id and overrides nothing, and one with an id of
\* its own that declares a capability and overrides nothing.
Plugins ==
    {LlmServerPlugin,
     ServerPlugin("second", PluginMetadata("llmserver-rs", "second", {}), {}),
     ServerPlugin("echo", PluginMetadata("echo", "echo", {"ModelDownload"}), {})}

\* The plugin ids requests name.
PluginIds == {"llmserver-rs", "echo", "missing"}

\* struct PluginManager
PluginManager(plugin_map, cache) == [plugins |-> plugin_map, metadata_cache |-> cache]

\* A plausible slip: an id that is registered keeps its first plugin
\* (entry(id).or_insert).
RegisterFirstWins(manager, plugin) ==
    LET metadata == plugin.metadata
    IN  IF metadata.id \in DOMAIN manager.plugins
        THEN manager
        ELSE PluginManager(Insert(manager.plugins, metadata.id, plugin),
                           Insert(manager.metadata_cache, metadata.id, metadata))

\* A plausible slip: the metadata cache is not filled.
RegisterWithoutCache(manager, plugin) ==
    PluginManager(Insert(manager.plugins, plugin.metadata.id, plugin),
                  manager.metadata_cache)

\* A plausible slip: the cache is keyed by the plugin's name, the map by its
\* id.
RegisterCacheByName(manager, plugin) ==
    LET metadata == plugin.metadata
    IN  PluginManager(Insert(manager.plugins, metadata.id, plugin),
                      Insert(manager.metadata_cache, metadata.name, metadata))

\* PluginManager::register
RegisterPlugin(manager, plugin) ==
    LET metadata == plugin.metadata
    IN  PluginManager(Insert(manager.plugins, metadata.id, plugin),
                      Insert(manager.metadata_cache, metadata.id, metadata))

\* PluginManager::plugin
Plugin(plugin_map, plugin_id) ==
    IF plugin_id \in DOMAIN plugin_map THEN Some(plugin_map[plugin_id]) ELSE None

\* PluginManager::all_metadata: the values of the cache, in the order the
\* map iterates in, which is not specified.
RECURSIVE AllMetadata(_)
AllMetadata(cache) ==
    IF DOMAIN cache = {} THEN << >>
    ELSE LET id == CHOOSE id \in DOMAIN cache : TRUE
         IN  << cache[id] >>
             \o AllMetadata([other \in DOMAIN cache \ {id} |-> cache[other]])

\* A plausible slip: the default method reports a request-shape problem.
DefaultMethodInvalidRequest == "InvalidRequest"

\* The default methods of trait ServerPlugin: Err(UnsupportedOperation).
DefaultMethod == "UnsupportedOperation"

\* What an operation that LlmServerPlugin implements can return: Ok or one
\* of the errors of its body.
ImplementedOutcomes(op) ==
    CASE op = "download_model" -> {"Ok", "InvalidRequest", "Network", "Io"}
      [] op = "start_service" ->
            {"Ok", "InvalidRequest", "ProcessAlreadyRunning", "ProcessStart"}
      [] op = "stop_service" -> {"Ok", "ProcessNotRunning", "ProcessStart"}

\* The outcomes of calling the operation on the plugin.
CallOutcomes(plugin, op) ==
    IF op \in plugin.overrides THEN ImplementedOutcomes(op) ELSE {DefaultMethod}

\* The statuses of http::StatusCode that the handlers use.
StatusOk == 200

BadRequest == 400

NotFound == 404

Conflict == 409

InternalServerError == 500

BadGateway == 502

ServiceUnavailable == 503

\* map_error: the status of an error.
MapError(error) ==
    CASE error = "UnsupportedOperation" -> BadRequest
      [] error = "InvalidRequest" -> BadRequest
      [] error = "NotReady" -> ServiceUnavailable
      [] error = "NotFound" -> NotFound
      [] error = "ProcessAlreadyRunning" -> Conflict
      [] error = "ProcessNotRunning" -> Conflict
      [] error = "Io" -> InternalServerError
      [] error = "Network" -> BadGateway
      [] error = "ProcessStart" -> InternalServerError
      [] error = "Internal" -> InternalServerError

\* error.to_string(): the message of a PluginError, as thiserror derives it.
Display(error) ==
    CASE error = "UnsupportedOperation" -> "operation not supported"
      [] error = "InvalidRequest" -> "invalid request: model_path is required"
      [] error = "ProcessAlreadyRunning" -> "process already running for Text"
      [] error = "ProcessNotRunning" -> "process not running for Text"
      [] error = "Io" -> "No space left on device (os error 28)"
      [] error = "Network" -> "error sending request"
      [] error = "ProcessStart" -> "failed to start process: No such file"

\* What a handler returns: the status and the message, with the request and
\* the outcome of the plugin's method it stands for (none without a call).
HandlerResponse(plugin_id, op, outcome, status, message) ==
    [plugin_id |-> plugin_id, op |-> op, outcome |-> outcome,
     status |-> status, message |-> message]

RegistryInit ==
    /\ plugins = << >>
    /\ metadata_cache = << >>
    /\ shared = FALSE
    /\ registered = << >>
    /\ invoked = {}
    /\ response = None
    /\ nrequests = 0

\* A step of the registry or of a handler leaves the plugin's state as it is.
RegistryOnly == UNCHANGED << lifecycle_vars, download_vars, url_vars >>

\* PluginManager::register, on the manager before it is shared.
Register(plugin) ==
    /\ ~shared
    /\ Len(registered) < MaxRegisters
    /\ LET manager == RegisterPlugin(PluginManager(plugins, metadata_cache), plugin)
       IN  /\ plugins' = manager.plugins
           /\ metadata_cache' = manager.metadata_cache
    /\ registered' = Append(registered, plugin)
    /\ UNCHANGED << shared, invoked, response, nrequests >>
    /\ RegistryOnly

\* SharedPluginManager::new: from here on the manager is only read.
Share ==
    /\ ~shared
    /\ shared' = TRUE
    /\ UNCHANGED << plugins, metadata_cache, registered, invoked, response,
                    nrequests >>
    /\ RegistryOnly

\* routes::list_plugins
ListPlugins ==
    /\ shared
    /\ nrequests < MaxRequests
    /\ nrequests' = nrequests + 1
    /\ response' = Some(HandlerResponse("", "list_plugins",
                                        AllMetadata(metadata_cache), StatusOk, ""))
    /\ UNCHANGED << plugins, metadata_cache, shared, registered, invoked >>
    /\ RegistryOnly

\* routes::download_model, start_service and stop_service: the plugin is
\* looked up; without one the handler answers 404 "plugin not found";
\* otherwise the plugin's method is called and its error mapped.
Handler(op, plugin_id) ==
    /\ shared
    /\ nrequests < MaxRequests
    /\ nrequests' = nrequests + 1
    /\ LET plugin == Plugin(plugins, plugin_id)
       IN  IF ~IsSome(plugin)
           THEN /\ response' = Some(HandlerResponse(plugin_id, op, "none",
                                                    NotFound, "plugin not found"))
                /\ UNCHANGED invoked
           ELSE /\ invoked' = invoked \cup {<< Unwrap(plugin).instance, op >>}
                /\ \E outcome \in CallOutcomes(Unwrap(plugin), op) :
                      response' = Some(
                          IF outcome = "Ok"
                          THEN HandlerResponse(plugin_id, op, outcome, StatusOk, "")
                          ELSE HandlerResponse(plugin_id, op, outcome,
                                               MapError(outcome), Display(outcome)))
    /\ UNCHANGED << plugins, metadata_cache, shared, registered >>
    /\ RegistryOnly

RegistryNext ==
    \/ \E plugin \in Plugins : Register(plugin)
    \/ Share
    \/ ListPlugins
    \/ \E op \in Operations, plugin_id \in PluginIds : Handler(op, plugin_id)

Init == LifecycleInit /\ DownloadInit /\ UrlIdle /\ RegistryInit

Next ==
    \/ \E t \in Tasks, request \in StartServiceRequest : StartBegin(t, request)
    \/ \E t \in Tasks : StartCheck(t)
    \/ \E t \in Tasks : StartSpawn(t)
    \/ \E t \in Tasks : StartInsert(t)
    \/ \E t \in Tasks, request \in StopServiceRequest : StopBegin(t, request)
    \/ \E t \in Tasks : StopRemove(t)
    \/ \E t \in Tasks : StopKill(t)
    \/ \E t \in Tasks : StopWait(t)
    \/ \E k \in DOMAIN children : ProcessExit(k)

Spec == Init /\ [][Next]_vars

\* Scheduling.  The runtime polls every task that can go on, and a spawn, a
\* kill and a wait on a child return (weak fairness of the steps that wait
\* for nothing shared).  tokio::sync::Mutex hands the lock to its waiters in
\* the order they asked, so a call waiting at lock().await gets the lock if
\* it is free again and again (strong fairness of the three acquisitions,
\* lines 232, 246 and 268).  Nothing obliges a client to make a call, or a
\* process to exit on its own.
Fairness ==
    \A t \in Tasks :
        /\ WF_vars(StartSpawn(t))
        /\ WF_vars(StopKill(t))
        /\ WF_vars(StopWait(t))
        /\ SF_vars(StartCheck(t))
        /\ SF_vars(StartInsert(t))
        /\ SF_vars(StopRemove(t))

\* The lifecycle under fair scheduling.
SpecFair == Init /\ [][Next]_vars /\ Fairness

\* Concurrent downloads, on a server whose services are left alone.
SpecDownload == Init /\ [][DownloadNext]_vars

\* One download_model call with no other caller.
SpecDownloadAlone == Init /\ [][DownloadAloneNext]_vars

\* The registry is filled and shared, and the handlers serve requests.
SpecRegistry == Init /\ [][RegistryNext]_vars

\* The plugin as constructed, with a request at hand for build_download_url.
InitUrl == LifecycleInit /\ DownloadInit /\ UrlInit /\ RegistryInit

\* build_download_url, applied to each request.
SpecUrl == InitUrl /\ [][BuildUrl]_vars

\* ============================================================== claims

\* The start calls of a task type that began while the table had no entry
\* for it, with no stop of that task type invoked since: they ran
\* concurrently against an empty slot.
Cohort(task) == {t \in StartsOf(task) : conc[t]}

\* The processes of a task type the plugin spawned and has not terminated
\* through stop_service.
Unterminated(task) ==
    {k \in DOMAIN children :
        children[k].task_type = task /\ children[k].state \notin {"killed", "reaped"}}

\* C1: when N >= 2 start_service calls for one task type run concurrently
\* against a table with no entry for it, all of them valid and with a spawn
\* that succeeds, exactly one returns success, every other one returns
\* ProcessAlreadyRunning, and exactly one process is spawned.
C1_ConcurrentStartsOneWinner ==
    \A task \in PluginTaskType :
        (/\ Cardinality(Cohort(task)) >= 2
         /\ \A t \in Cohort(task) :
               /\ pc[t] = "done"
               /\ result[t].kind \in {"Ok", "ProcessAlreadyRunning"})
        => /\ Cardinality({t \in Cohort(task) : result[t].kind = "Ok"}) = 1
           /\ Cardinality({t \in Cohort(task) : IsSome(call[t].child)}) = 1

\* C2: in start_service the lock on the tracking table is held continuously
\* from the existence check until after the insert: a start that has passed
\* its check and not yet inserted holds the lock.
C2_LockHeldFromCheckToInsert ==
    \A t \in Tasks : pc[t] \in {"spawn", "insert"} => lock = Some(t)

\* C3: in every reachable state, for each task type at most one process that
\* the plugin spawned has not yet been terminated through stop_service.
C3_AtMostOneProcessPerTaskType ==
    \A task \in PluginTaskType : Cardinality(Unterminated(task)) <= 1

\* A start_service call of t returns in this step, past its validation.
StartReturns(t) ==
    /\ call[t].op = "start"
    /\ pc[t] \in {"check", "spawn", "insert"}
    /\ pc'[t] = "done"

\* A stop_service call of t returns in this step.
StopReturns(t) ==
    /\ call[t].op = "stop"
    /\ pc[t] \in {"remove", "kill", "wait"}
    /\ pc'[t] = "done"

\* The last call of the task type that returned without overlapping another.
LastOf(task) == trail[task][Len(trail[task])]

Follows(task, op, kind) ==
    /\ trail[task] # << >>
    /\ LastOf(task).op = op
    /\ LastOf(task).kind = kind

\* C4: a start_service call made after a start_service of the same task
\* type returned success, with no stop_service of that task type in between,
\* returns ProcessAlreadyRunning, spawns no process and leaves the tracked
\* entry of the first call as it was.
C4_SecondStartRejected ==
    [][\A t \in Tasks :
          LET task == call[t].task_type
          IN  (StartReturns(t) /\ solo[t] /\ Follows(task, "start", "Ok"))
              => /\ result'[t] = ProcessAlreadyRunning
                 /\ call'[t].child = None
                 /\ children' = children
                 /\ processes' = processes
                 /\ task \in DOMAIN processes
                 /\ Some(processes[task].child) = LastOf(task).child]_vars

\* Two starts of one task type in sequence: the first succeeded, the second
\* was rejected as already running, and the first one's process is tracked.
C4_Witness ==
    \E task \in PluginTaskType :
        /\ Len(trail[task]) = 2
        /\ trail[task][1].op = "start" /\ trail[task][1].kind = "Ok"
        /\ trail[task][2].op = "start"
        /\ trail[task][2].kind = "ProcessAlreadyRunning"
        /\ task \in DOMAIN processes
        /\ Some(processes[task].child) = trail[task][1].child

\* C5: stop_service called when the table has no entry for the task type
\* returns ProcessNotRunning, kills no process and leaves the table as it
\* was.
C5_StopWithoutEntry ==
    [][\A t \in Tasks :
          (/\ call[t].op = "stop"
           /\ pc[t] = "remove"
           /\ pc'[t] # "remove"
           /\ call[t].task_type \notin DOMAIN processes)
          => /\ pc'[t] = "done"
             /\ result'[t] = ProcessNotRunning
             /\ call'[t].child = None
             /\ processes' = processes
             /\ children' = children
             /\ lock' = None]_vars

\* A stop of a task type without entry returned ProcessNotRunning while the
\* other task type's process stayed tracked and running.
C5_Witness ==
    \E t \in Tasks :
        /\ pc[t] = "done"
        /\ call[t].op = "stop"
        /\ result[t] = ProcessNotRunning
        /\ call[t].task_type \notin DOMAIN processes
        /\ \E other \in DOMAIN processes :
              children[processes[other].child].state = "running"

\* C6: start_service, stop_service, start_service for one task type, each
\* after the previous one returned and with every spawn, kill and wait
\* succeeding: the stop succeeds and leaves no entry; the second start
\* succeeds, spawns a new process and reports the identifier of that
\* process, not of the stopped one.
C6_StartStopStart ==
    [][\A t \in Tasks :
          LET task == call[t].task_type
          IN  /\ (/\ StopReturns(t) /\ solo[t]
                  /\ Follows(task, "start", "Ok")
                  /\ result'[t].kind # "ProcessStart")
                 => /\ result'[t] = StopServiceResponse
                    /\ call[t].child = LastOf(task).child
                    /\ children'[Unwrap(call[t].child)].state = "reaped"
                    /\ task \notin DOMAIN processes'
              /\ (/\ StartReturns(t) /\ solo[t]
                  /\ Len(trail[task]) = 2
                  /\ trail[task][1].op = "start" /\ trail[task][1].kind = "Ok"
                  /\ trail[task][2].op = "stop" /\ trail[task][2].kind = "Ok"
                  /\ trail[task][2].child = trail[task][1].child
                  /\ result'[t].kind # "ProcessStart")
                 => /\ result'[t].kind = "Ok"
                    /\ IsSome(call'[t].child)
                    /\ LET old == Unwrap(trail[task][1].child)
                           new == Unwrap(call'[t].child)
                       IN  /\ new > old
                           /\ children'[new].task_type = task
                           /\ children'[new].state \in {"running", "exited"}
                           /\ task \in DOMAIN processes'
                           /\ processes'[task].child = new
                           /\ result'[t].pid = children'[new].pid
                           /\ result'[t].pid # children'[old].pid]_vars

\* A stop that succeeded followed by a start that succeeded with another
\* process, which is the tracked one; the stopped process was reaped.
C6_Witness ==
    \E task \in PluginTaskType :
        /\ Len(trail[task]) = 2
        /\ trail[task][1].op = "stop" /\ trail[task][1].kind = "Ok"
        /\ trail[task][2].op = "start" /\ trail[task][2].kind = "Ok"
        /\ children[Unwrap(trail[task][1].child)].state = "reaped"
        /\ task \in DOMAIN processes
        /\ Some(processes[task].child) = trail[task][2].child
        /\ trail[task][2].child # trail[task][1].child

\* A step of t's current call.
StepOf(t) == pc'[t] # pc[t] \/ call'[t] # call[t] \/ result'[t] # result[t]

\* C7: a start_service call that returns an error has not changed the
\* tracking table: every step of a start_service call other than its
\* successful return leaves the table exactly as it was.
C7_FailedStartLeavesTable ==
    [][\A t \in Tasks :
          (/\ call'[t].op = "start"
           /\ StepOf(t)
           /\ ~(pc'[t] = "done" /\ result'[t].kind = "Ok"))
          => processes' = processes]_vars

\* A start was rejected as already running and another one failed to spawn,
\* with the table still holding the entry.
C7_Witness ==
    \E t, u \in Tasks :
        /\ pc[t] = "done" /\ call[t].op = "start"
        /\ result[t].kind = "ProcessAlreadyRunning"
        /\ call[t].task_type \in DOMAIN processes
        /\ pc[u] = "done" /\ call[u].op = "start"
        /\ result[u] = ProcessStart("spawn")
        /\ call[u].task_type \notin DOMAIN processes

\* C8: when stop_service found an entry and the kill or the wait fails, the
\* call returns a ProcessStart error and the entry stays removed; a
\* following stop_service returns ProcessNotRunning and a following
\* start_service is not rejected as already running.
C8_FailedStopKeepsEntryRemoved ==
    [][\A t \in Tasks :
          LET task == call[t].task_type
          IN  /\ (/\ StopReturns(t)
                  /\ pc[t] \in {"kill", "wait"}
                  /\ result'[t].kind # "Ok")
                 => /\ result'[t].kind = "ProcessStart"
                    /\ task \notin DOMAIN processes'
                    /\ lock' = None
              /\ (StopReturns(t) /\ solo[t] /\ Follows(task, "stop", "ProcessStart"))
                 => result'[t] = ProcessNotRunning
              /\ (StartReturns(t) /\ solo[t] /\ Follows(task, "stop", "ProcessStart"))
                 => result'[t].kind # "ProcessAlreadyRunning"]_vars

\* A stop failed to terminate its process, which is no longer tracked, and
\* the stop after it found nothing to stop.
C8_Witness ==
    \E task \in PluginTaskType :
        /\ Len(trail[task]) = 2
        /\ trail[task][1].op = "stop" /\ trail[task][1].kind = "ProcessStart"
        /\ children[Unwrap(trail[task][1].child)].state # "reaped"
        /\ trail[task][2].op = "stop"
        /\ trail[task][2].kind = "ProcessNotRunning"
        /\ task \notin DOMAIN processes

\* C9: the entry of a task type changes only from absent to present, by a
\* start_service of that task type returning success, and from present to
\* absent, by a stop_service of that task type; nothing else changes it.
C9_OnlyStartAndStopChangeEntry ==
    [][\A task \in PluginTaskType :
          LET had == task \in DOMAIN processes
              has == task \in DOMAIN processes'
          IN  (had # has \/ (had /\ has /\ processes'[task] # processes[task]))
              => \/ /\ ~had /\ has
                    /\ \E t \in Tasks :
                          /\ StartReturns(t)
                          /\ call[t].task_type = task
                          /\ result'[t].kind = "Ok"
                 \/ /\ had /\ ~has
                    /\ \E t \in Tasks :
                          /\ call[t].op = "stop"
                          /\ call[t].task_type = task
                          /\ pc[t] = "remove" /\ pc'[t] # "remove"]_vars

\* The binary the claim expects for a request: the request's own, else the
\* configured default, else none.
ExpectedBinary(request) ==
    IF request.binary_path # None THEN request.binary_path ELSE default_binary

\* C10: start_service rejects a request with InvalidRequest, before taking
\* the lock and before spawning, when model_path is empty after trimming or
\* no binary can be resolved, whatever the table holds; otherwise the
\* command is the request's binary_path if given, else the default binary.
C10_InvalidRequestFirst ==
    [][\A t \in Tasks :
          /\ (ncalls' # ncalls /\ call'[t].op = "start" /\ StepOf(t))
             => IF \/ call'[t].model_path \in {"", " "}
                   \/ ExpectedBinary(call'[t]) = None
                THEN /\ pc'[t] = "done"
                     /\ result'[t].kind = "InvalidRequest"
                     /\ call'[t].child = None
                     /\ UNCHANGED << processes, lock, children >>
                ELSE /\ pc'[t] = "check"
                     /\ result'[t] = NoResult
          /\ (StartReturns(t) /\ result'[t].kind = "Ok")
             => result'[t].command = Unwrap(ExpectedBinary(call[t]))]_vars

\* A request with a blank model_path was rejected although its own binary
\* was given, while a process is tracked for its task type.
C10_Witness ==
    \E t \in Tasks :
        /\ pc[t] = "done"
        /\ call[t].op = "start"
        /\ result[t].kind = "InvalidRequest"
        /\ call[t].model_path = " "
        /\ call[t].binary_path # None
        /\ call[t].task_type \in DOMAIN processes

\* A string that is empty once the whitespace at its ends is taken off.
Blank(cs) == \A i \in 1..Len(cs) : cs[i] = " "

\* C11: download_model with a model_id or a filename that is empty after
\* trimming whitespace returns InvalidRequest at once, without sending a
\* network request and without creating a directory or a file or writing
\* to one; any other request goes on to the network request.
C11_BlankDownloadRejected ==
    [][\A d \in Downloaders :
          (dl_pc[d] = "idle" /\ dl_pc'[d] # "idle")
          => LET request == dl_call'[d].request
             IN  IF Blank(request.model_id) \/ Blank(request.filename)
                 THEN /\ dl_pc'[d] = "done"
                      /\ dl_result'[d].kind = "InvalidRequest"
                      /\ network' = network
                      /\ files' = files
                      /\ dirs' = dirs
                      /\ file' = file
                 ELSE /\ dl_pc'[d] = "send"
                      /\ dl_result'[d] = NoDownloadResult]_vars

\* A request with a model_id and a filename of two spaces was rejected;
\* nothing was sent and no file exists.
C11_Witness ==
    \E d \in Downloaders :
        /\ dl_pc[d] = "done"
        /\ dl_result[d].kind = "InvalidRequest"
        /\ dl_call[d].request.model_id = << "o", "/", "n" >>
        /\ dl_call[d].request.filename = << " ", " " >>
        /\ network = << >>
        /\ files = << >>

\* The bytes of a body, and their number.
RECURSIVE Concat(_)
Concat(chunks) ==
    IF chunks = << >> THEN << >> ELSE Head(chunks) \o Concat(Tail(chunks))

RECURSIVE SumLen(_)
SumLen(chunks) ==
    IF chunks = << >> THEN 0 ELSE Len(Head(chunks)) + SumLen(Tail(chunks))

\* The path the claim expects a download to be saved at.
ExpectedSavedPath(request) ==
    IF request.destination_dir # None
    THEN Unwrap(request.destination_dir) \o << request.filename >>
    ELSE BaseDir
         \o << IF request.task_type = "Text"
               THEN << "t", "e", "x", "t" >>
               ELSE << "t", "t", "s" >> >>
         \o << request.filename >>

\* C12: a download_model call that succeeds, with no other writer to its
\* path, reports bytes_written equal to the sum of the lengths of the chunks
\* of the body, which is the size of the file at saved_path, and the file
\* holds the chunks in arrival order; saved_path is destination_dir joined
\* with the filename, or base_dir joined with text or tts and the filename.
\* Stated for the calls whose file has no write in flight any more.
C12_DownloadWritesBody ==
    \A d \in Downloaders :
        (/\ dl_pc[d] = "done"
         /\ dl_result[d].kind = "Ok"
         /\ file[d].pending = None)
        => LET body == dl_call[d].received
               saved_path == dl_result[d].saved_path
           IN  /\ dl_call[d].response = << >>
               /\ dl_result[d].bytes_written = SumLen(body)
               /\ saved_path = ExpectedSavedPath(dl_call[d].request)
               /\ saved_path \in DOMAIN files
               /\ Len(files[saved_path]) = dl_result[d].bytes_written
               /\ files[saved_path] = Concat(body)

\* The character a percent-encoded triple stands for.
DecodeTriple(x, y) ==
    CASE x = "2" /\ y = "0" -> " "
      [] x = "2" /\ y = "F" -> "/"
      [] x = "2" /\ y = "5" -> "%"

RECURSIVE PercentDecode(_)
PercentDecode(cs) ==
    IF cs = << >> THEN << >>
    ELSE IF Head(cs) = "%" /\ Len(cs) >= 3
    THEN << DecodeTriple(cs[2], cs[3]) >> \o PercentDecode(SubSeq(cs, 4, Len(cs)))
    ELSE << Head(cs) >> \o PercentDecode(Tail(cs))

\* Url::path_segments, percent-decoded: the pieces of the path after its
\* leading "/".
PathSegments(u) ==
    LET pieces == Split(Tail(u.path), "/")
    IN  [i \in 1..Len(pieces) |-> PercentDecode(pieces[i])]

\* The segments the claim expects for a request.
ExpectedSegments(request) ==
    SelectSeq(Split(request.model_id, "/"), LAMBDA piece : Len(piece) > 0)
    \o << << "r", "e", "s", "o", "l", "v", "e" >>, request.revision,
          request.filename >>

\* C13: for every model_id, revision and filename the path segments of the
\* download URL are the non-empty pieces of model_id between slashes, in
\* order, followed by "resolve", the revision and the filename, and the
\* query string is download=1.
C13_UrlSegments ==
    IsSome(url)
    => /\ PathSegments(Unwrap(url)) = ExpectedSegments(Unwrap(url_request))
       /\ Unwrap(url).query = Some("download=1")

\* The plugin registered in this step.
NewlyRegistered == registered'[Len(registered')]

\* The positions of the descriptors with the id in a listing.
Listed(listing, id) == {i \in 1..Len(listing) : listing[i].id = id}

\* C14, as claimed: in any registry state, registering one plugin makes
\* the listing one descriptor longer, and the listing after it has a
\* descriptor with the plugin's declared id.
C14_RegisterAddsOne ==
    [][registered' # registered
       => LET before == AllMetadata(metadata_cache)
              after == AllMetadata(metadata_cache')
          IN  /\ Len(after) = Len(before) + 1
              /\ Listed(after, NewlyRegistered.metadata.id) # {}]_vars

\* C14, amended: registering a plugin whose declared id is not listed makes
\* the listing one descriptor longer; registering one whose id is listed
\* leaves its length as it was; either way the listing after it has a
\* descriptor with the plugin's declared id.
C14_RegisterAddsOneForNewId ==
    [][registered' # registered
       => LET before == AllMetadata(metadata_cache)
              after == AllMetadata(metadata_cache')
              id == NewlyRegistered.metadata.id
          IN  /\ Len(after) = Len(before) + (IF Listed(before, id) = {} THEN 1 ELSE 0)
              /\ Listed(after, id) # {}]_vars

\* Two plugins with different ids were registered, then one with the id of
\* the first: the listing has two descriptors.
C14_Witness ==
    /\ Len(registered) = 3
    /\ registered[1].metadata.id # registered[2].metadata.id
    /\ registered[3].metadata.id = registered[1].metadata.id
    /\ Len(AllMetadata(metadata_cache)) = 2

\* The plugin registered last under the id, if any.
LatestRegistered(id) ==
    LET at == {i \in 1..Len(registered) : registered[i].metadata.id = id}
    IN  IF at = {} THEN None
        ELSE Some(registered[CHOOSE i \in at : \A j \in at : j <= i])

\* C15: after any sequence of register calls, the lookup of an id returns
\* the plugin registered last under that id, and nothing for an id never
\* registered, and the listing has exactly one descriptor for a registered
\* id, that of the plugin registered last, and none for another id.
C15_LastWriteWins ==
    \A id \in PluginIds :
        LET latest == LatestRegistered(id)
            listing == AllMetadata(metadata_cache)
        IN  /\ Plugin(plugins, id) = latest
            /\ IF latest = None
               THEN Listed(listing, id) = {}
               ELSE /\ Cardinality(Listed(listing, id)) = 1
                    /\ \A i \in Listed(listing, id) :
                          listing[i] = Unwrap(latest).metadata

\* The llmserver plugin was registered and then another plugin under its
\* id, which is the one the lookup returns and the listing describes.
C15_Witness ==
    /\ Len(registered) >= 2
    /\ registered[1] = LlmServerPlugin
    /\ registered[2].metadata.id = LlmServerPlugin.metadata.id
    /\ registered[2] # LlmServerPlugin
    /\ Plugin(plugins, "llmserver-rs") = Some(registered[2])
    /\ \E i \in 1..Len(AllMetadata(metadata_cache)) :
          AllMetadata(metadata_cache)[i] = registered[2].metadata

\* C16: download, start or stop requested on a plugin id never registered
\* is answered not found (404, "plugin not found") and no plugin method is
\* called; on a registered plugin that does not implement the operation
\* the method returns UnsupportedOperation (400, "operation not
\* supported"); an implemented operation never returns UnsupportedOperation
\* and its failures are answered with another status or message than those
\* two.
C16_NotFoundAndUnsupported ==
    [][(nrequests' # nrequests /\ Unwrap(response').op \in Operations)
       => LET answer == Unwrap(response')
              plugin == LatestRegistered(answer.plugin_id)
          IN  IF plugin = None
              THEN /\ answer.status = 404
                   /\ answer.message = "plugin not found"
                   /\ answer.outcome = "none"
                   /\ invoked' = invoked
              ELSE /\ invoked' = invoked \cup {<< Unwrap(plugin).instance, answer.op >>}
                   /\ IF answer.op \notin Unwrap(plugin).overrides
                      THEN /\ answer.outcome = "UnsupportedOperation"
                           /\ answer.status = 400
                           /\ answer.message = "operation not supported"
                      ELSE /\ answer.outcome # "UnsupportedOperation"
                           /\ << answer.status, answer.message >>
                                 \notin {<< 404, "plugin not found" >>,
                                         << 400, "operation not supported" >>}]_vars

\* With the llmserver and the echo plugin registered, stop_service on echo,
\* which does not implement it, was called, and a request to an id never
\* registered was then answered not found.
C16_Witness ==
    /\ LatestRegistered("llmserver-rs") = Some(LlmServerPlugin)
    /\ << "echo", "stop_service" >> \in invoked
    /\ response # None
    /\ Unwrap(response).plugin_id = "missing"
    /\ Unwrap(response).status = 404

\* A caller whose next step takes the lock on the tracking table.
WantsLock(u) == pc[u] \in {"check", "insert", "remove"}

\* C17: a stop_service that is killing its child or waiting for it to exit
\* does not block the other callers: while it does, a start_service or
\* stop_service call of any task type that needs the tracking table can
\* take its lock.
C17_StopWaitDoesNotBlock ==
    \A t \in Tasks :
        pc[t] \in {"kill", "wait"}
        => \A u \in Tasks \ {t} : WantsLock(u) => lock = None

\* The arguments the claim expects for a request.
ExpectedArgs(request) ==
    IF request.args # None
    THEN Unwrap(request.args)
    ELSE << "serve", "--model", request.model_path, "--task",
            IF request.task_type = "Text" THEN "text" ELSE "tts" >>

\* C19: a start_service call that returns success has inserted exactly one
\* entry for its task type, exactly once; the entry holds the spawned
\* process with the command and the arguments of the response; the
\* response's pid is that process's identifier, its command the resolved
\* binary, its args the request's args or else serve --model <model_path>
\* --task <text|tts>.
C19_OneEntryInsertedOnce ==
    [][\A t \in Tasks :
          (StartReturns(t) /\ result'[t].kind = "Ok")
          => LET task == call[t].task_type
                 answer == result'[t]
             IN  /\ Len(call'[t].inserted) = 1
                 /\ task \in DOMAIN processes'
                 /\ processes'[task] = call'[t].inserted[1]
                 /\ Some(processes'[task].child) = call[t].child
                 /\ processes'[task].command = answer.command
                 /\ processes'[task].args = answer.args
                 /\ answer.pid = children'[processes'[task].child].pid
                 /\ answer.command = Unwrap(ExpectedBinary(call[t]))
                 /\ answer.args = ExpectedArgs(call[t])]_vars

\* The child is the one the entry of its task type holds.
Tracked(k) ==
    /\ children[k].task_type \in DOMAIN processes
    /\ processes[children[k].task_type].child = k

\* C20: whenever no start_service or stop_service call is in progress,
\* every process start_service spawned and the plugin has not killed is
\* held by the entry of its task type, so that stop_service can reach it.
\* Stated for the processes no stop_service has taken out of the table (a
\* stop whose kill fails leaves its process running without entry as well,
\* which is the documented behaviour of C8).
C20_NoUntrackedProcess ==
    (\A t \in Tasks : ~InFlight(t))
    => \A k \in DOMAIN children :
          (children[k].state \notin {"killed", "reaped"} /\ k \notin taken)
          => Tracked(k)

\* The file at the path holds the whole body of d's download and nothing
\* else, and has the size d reported.
HoldsBodyOf(path, d) ==
    /\ files[path] = Concat(dl_call[d].received)
    /\ Len(files[path]) = dl_result[d].bytes_written

\* C18: when two download_model calls write the same path, with their
\* writes interleaved in any order, and both return success, the file holds
\* the complete body of one of them, never a mixture, and has the size that
\* download reported.  Stated for calls whose writes were all done when
\* they returned.
C18_LastWriterWins ==
    \A d, e \in Downloaders :
        (/\ d # e
         /\ dl_pc[d] = "done" /\ dl_result[d].kind = "Ok" /\ dl_call[d].flushed
         /\ dl_pc[e] = "done" /\ dl_result[e].kind = "Ok" /\ dl_call[e].flushed
         /\ dl_result[d].saved_path = dl_result[e].saved_path)
        => \/ HoldsBodyOf(dl_result[d].saved_path, d)
           \/ HoldsBodyOf(dl_result[d].saved_path, e)

\* C21: after any sequence of register calls the plugin map and the
\* metadata cache have the same keys, and for every key the cached
\* metadata's id is the key and is the id declared by the plugin stored
\* under that key.
C21_MapAndCacheAgree ==
    /\ DOMAIN plugins = DOMAIN metadata_cache
    /\ \A id \in DOMAIN plugins :
          /\ metadata_cache[id].id = id
          /\ metadata_cache[id].id = plugins[id].metadata.id
          /\ \E i \in DOMAIN registered : registered[i] = plugins[id]

\* Two ids are registered, one of them twice by plugins of different names.
C21_Witness ==
    /\ Len(registered) = MaxRegisters
    /\ Cardinality(DOMAIN plugins) = 2
    /\ \E i, j \in DOMAIN registered :
          /\ i < j
          /\ registered[i].metadata.id = registered[j].metadata.id
          /\ registered[i].metadata.name # registered[j].metadata.name

\* C22: under fair scheduling, with every spawn, kill and wait returning,
\* every start_service and stop_service call returns; a call that has
\* returned, with a response or with any error, does not hold the lock; and
\* the lock is only ever taken when nobody holds it, the taker included.
C22_EveryCallReturns ==
    /\ \A t \in Tasks : InFlight(t) ~> (pc[t] = "done")
    /\ [](\A t \in Tasks : ~InFlight(t) => lock # Some(t))
    /\ [][\A t \in Tasks : (lock' = Some(t) /\ lock # Some(t)) => lock = None]_vars

\* A stop_service holds the lock while it waits for its child, and a
\* start_service of the other task type, its process spawned, waits for the
\* lock a second time.
C22_Witness ==
    \E t, u \in Tasks :
        /\ pc[t] = "wait" /\ lock = Some(t)
        /\ pc[u] = "insert"
        /\ call[u].task_type # call[t].task_type

====
